---- MODULE Spec2Model ----
(***************************************************************************)
(* The validation state machine of src/src/App.tsx: the four validation    *)
(* steps, the user/session mirrors, the busy flag, the auth-event          *)
(* subscription and the provider calls in flight.                          *)
(*                                                                         *)
(* Each action is one synchronous run of a handler: from its invocation    *)
(* to its first await, or from the resolution of an awaited provider call  *)
(* to the end of the function.  React applies the queued functional        *)
(* updates of one such run together, so the run is one transition.         *)
(***************************************************************************)
EXTENDS Integers, Sequences, FiniteSets, TLC

\* Most connection checks that may be unresolved at once (resetValidation
\* starts a new one without waiting for the earlier ones).
MaxInflight == 2

-----------------------------------------------------------------------------
(* Values *)

\* JavaScript null (the initial value of user and session).
NULL == [isNull |-> TRUE]

\* JavaScript undefined in the details slot of a step.
undefined == "<undefined>"

Statuses == {"pending", "success", "error", "loading"}

\* Two sessions the provider can deliver, of different users.
SessionA ==
    [access_token |-> "token-a", token_type |-> "bearer",
     user |-> [id |-> "id-a", email |-> "a@b.com",
               app_metadata |-> [provider |-> "google"],
               created_at |-> "2024-01-01T00:00:00Z"]]

SessionB ==
    [access_token |-> "token-b", token_type |-> "bearer",
     user |-> [id |-> "id-b", email |-> "c@d.org",
               app_metadata |-> [provider |-> "github"],
               created_at |-> "2023-06-15T12:30:00Z"]]

Sessions == {SessionA, SessionB}

\* new Date(created_at).toLocaleString() (en-US, UTC).
toLocaleString(createdAt) ==
    CASE createdAt = "2024-01-01T00:00:00Z" -> "1/1/2024, 12:00:00 AM"
      [] createdAt = "2023-06-15T12:30:00Z" -> "6/15/2023, 12:30:00 PM"
      [] OTHER -> "Invalid Date"

\* What an awaited provider call resolves to: {data, error} with error null
\* ("ok"), {data, error} with an error ("error"), or a rejected promise
\* ("throw").  session is data.session; message is error.message, or the
\* thrown value converted to a string.
OkResp(s) == [kind |-> "ok", session |-> s, message |-> ""]
ErrorResp == [kind |-> "error", session |-> NULL, message |-> "Invalid API key"]
ThrowResp == [kind |-> "throw", session |-> NULL, message |-> "TypeError: Failed to fetch"]

GetSessionResponses == {OkResp(s) : s \in Sessions \cup {NULL}} \cup {ErrorResp, ThrowResp}
ActionResponses == {OkResp(NULL), ErrorResp, ThrowResp}

\* No response received yet.
NoResp == [kind |-> "none", session |-> NULL, message |-> ""]

\* The events of the provider's stream with the session each one carries.
AuthEvents ==
    ({"SIGNED_IN", "TOKEN_REFRESHED"} \X Sessions)
        \cup {<<"SIGNED_OUT", NULL>>}
        \cup ({"INITIAL_SESSION"} \X (Sessions \cup {NULL}))

\* projectId and publicAnonKey of utils/supabase/info: "" is a missing value.
Configs == [projectId : {"", "abcdefgh"}, publicAnonKey : {"", "anon-key"}]

-----------------------------------------------------------------------------
(* State *)

VARIABLES
    steps,          \* useState<ValidationStep[]>
    user,           \* useState(null)
    session,        \* useState(null)
    isLoading,      \* useState(false)
    subscription,   \* "none" before the effect ran, "active", "released"
    inflight,       \* number of unresolved provider calls of each call site
    config,         \* the imported projectId and publicAnonKey
    connResp,       \* history: the last response a connection check received
    seedResp,       \* history: the response checkSession received
    run             \* history: "fresh" while only the startup protocol has
                    \* run; "reset" when, besides, resetValidation was clicked,
                    \* each time with no call in flight; "actions" after any
                    \* other click; "mixed" once an auth event was handled

vars == <<steps, user, session, isLoading, subscription, inflight, config,
          connResp, seedResp, run>>

\* useState initial value of steps.
InitSteps ==
    << [id |-> "supabase-connection", title |-> "Conexión a Supabase",
        status |-> "pending",
        description |-> "Verificar conexión con Supabase",
        details |-> undefined],
       [id |-> "oauth-config", title |-> "Configuración OAuth",
        status |-> "pending",
        description |-> "Verificar configuración de Google OAuth",
        details |-> undefined],
       [id |-> "google-auth", title |-> "Autenticación Google",
        status |-> "pending",
        description |-> "Proceso de autenticación con Google",
        details |-> undefined],
       [id |-> "session-management", title |-> "Gestión de Sesión",
        status |-> "pending",
        description |-> "Validar sesión y datos del usuario",
        details |-> undefined] >>

StepIds == {InitSteps[i].id : i \in 1..Len(InitSteps)}

NoneInFlight == \A k \in DOMAIN inflight : inflight[k] = 0

Init ==
    /\ steps = InitSteps
    /\ user = NULL
    /\ session = NULL
    /\ isLoading = FALSE
    /\ subscription = "none"
    /\ inflight = [conn |-> 0, seed |-> 0, signIn |-> 0, signOut |-> 0]
    /\ config \in Configs
    /\ connResp = NoResp
    /\ seedResp = NoResp
    /\ run = "fresh"

-----------------------------------------------------------------------------
(* StepRegistry: the pure updates of the steps array *)

\* updateStepStatus with every step matched: the id test is lost.
updateStepStatus_AllSteps(prev, id, status, details) ==
    [i \in 1..Len(prev) |-> [prev[i] EXCEPT !.status = status, !.details = details]]

\* prev.map(step => step.id === id ? {...step, status, details} : step)
updateStepStatus(prev, id, status, details) ==
    [i \in 1..Len(prev) |->
        IF prev[i].id = id
        THEN [prev[i] EXCEPT !.status = status, !.details = details]
        ELSE prev[i]]

\* The reset that keeps the details of the earlier run.
resetAll_KeepDetails(prev) ==
    [i \in 1..Len(prev) |-> [prev[i] EXCEPT !.status = "pending"]]

\* prev.map(step => ({...step, status: 'pending', details: undefined}))
resetAll(prev) ==
    [i \in 1..Len(prev) |->
        [prev[i] EXCEPT !.status = "pending", !.details = undefined]]

-----------------------------------------------------------------------------
(* AuthCoordinator: what each handler does to the steps *)

\* if (projectId && publicAnonKey) ... else ...
checkOAuthConfig(prev) ==
    IF config.projectId # "" /\ config.publicAnonKey # ""
    THEN updateStepStatus(prev, "oauth-config", "success",
            "Variables de entorno configuradas. Recuerda configurar Google OAuth en Supabase Dashboard")
    ELSE updateStepStatus(prev, "oauth-config", "error",
            "Variables de entorno faltantes")

\* The success branch without the call of checkOAuthConfig.
checkSupabaseConnectionResolved_NoConfigCheck(prev, r) ==
    CASE r.kind = "error" ->
            updateStepStatus(
                updateStepStatus(prev, "supabase-connection", "error",
                                 "Error: " \o r.message),
                "oauth-config", "error",
                "No se puede verificar sin conexión a Supabase")
      [] r.kind = "ok" ->
            updateStepStatus(prev, "supabase-connection", "success",
                             "Conexión establecida correctamente")
      [] OTHER ->
            updateStepStatus(prev, "supabase-connection", "error",
                             "Error de conexión: " \o r.message)

\* The catch clause only logging: a rejected call leaves the step loading.
checkSupabaseConnectionResolved_SilentCatch(prev, r) ==
    CASE r.kind = "error" ->
            updateStepStatus(
                updateStepStatus(prev, "supabase-connection", "error",
                                 "Error: " \o r.message),
                "oauth-config", "error",
                "No se puede verificar sin conexión a Supabase")
      [] r.kind = "ok" ->
            checkOAuthConfig(
                updateStepStatus(prev, "supabase-connection", "success",
                                 "Conexión establecida correctamente"))
      [] OTHER -> prev

\* checkSupabaseConnection after its await: the error branch, the success
\* branch (the data of the response is not read) and the catch clause.
checkSupabaseConnectionResolved(prev, r) ==
    CASE r.kind = "error" ->
            updateStepStatus(
                updateStepStatus(prev, "supabase-connection", "error",
                                 "Error: " \o r.message),
                "oauth-config", "error",
                "No se puede verificar sin conexión a Supabase")
      [] r.kind = "ok" ->
            checkOAuthConfig(
                updateStepStatus(prev, "supabase-connection", "success",
                                 "Conexión establecida correctamente"))
      [] OTHER ->
            updateStepStatus(prev, "supabase-connection", "error",
                             "Error de conexión: " \o r.message)

\* checkSession with the update of session-management lost.
checkSessionResolved_OnlyGoogleAuth(prev, r) ==
    IF r.kind = "ok" /\ r.session # NULL
    THEN updateStepStatus(prev, "google-auth", "success",
            "Usuario ya autenticado: " \o r.session.user.email)
    ELSE prev

\* checkSession after its await: only a response with a session is acted on.
checkSessionResolved(prev, r) ==
    IF r.kind = "ok" /\ r.session # NULL
    THEN updateStepStatus(
            updateStepStatus(prev, "google-auth", "success",
                "Usuario ya autenticado: " \o r.session.user.email),
            "session-management", "success",
            "Sesión activa desde: " \o toLocaleString(r.session.user.created_at))
    ELSE prev

\* The callback of onAuthStateChange with the second update of SIGNED_IN lost.
onAuthStateChangeSteps_NoSessionStep(prev, event, s) ==
    CASE event = "SIGNED_IN" ->
            updateStepStatus(prev, "google-auth", "success",
                "Usuario autenticado: " \o s.user.email)
      [] event = "SIGNED_OUT" ->
            updateStepStatus(
                updateStepStatus(prev, "google-auth", "pending",
                    "Proceso de autenticación con Google"),
                "session-management", "pending",
                "Validar sesión y datos del usuario")
      [] OTHER -> prev

\* The callback of onAuthStateChange, its updates of the steps.  SIGNED_IN
\* always carries a session (AuthEvents), so session?.user?.email is its email.
onAuthStateChangeSteps(prev, event, s) ==
    CASE event = "SIGNED_IN" ->
            updateStepStatus(
                updateStepStatus(prev, "google-auth", "success",
                    "Usuario autenticado: " \o s.user.email),
                "session-management", "success",
                "Sesión activa con provider: " \o s.user.app_metadata.provider)
      [] event = "SIGNED_OUT" ->
            updateStepStatus(
                updateStepStatus(prev, "google-auth", "pending",
                    "Proceso de autenticación con Google"),
                "session-management", "pending",
                "Validar sesión y datos del usuario")
      [] OTHER -> prev

\* The callback with the mirrors written only for the two handled events.
onAuthStateChangeUser_HandledOnly(event, s) ==
    IF event \in {"SIGNED_IN", "SIGNED_OUT"}
    THEN IF s = NULL THEN NULL ELSE s.user
    ELSE user

\* setUser(session?.user || null): run for every event.
onAuthStateChangeUser(event, s) ==
    IF s = NULL THEN NULL ELSE s.user

\* signInWithGoogle reporting success itself when the call returns no error.
signInWithGoogleResolved_SuccessOnOk(prev, r) ==
    CASE r.kind = "error" ->
            updateStepStatus(
                updateStepStatus(prev, "google-auth", "error",
                                 "Error: " \o r.message),
                "session-management", "error",
                "No se puede gestionar sesión sin autenticación")
      [] r.kind = "ok" ->
            updateStepStatus(prev, "google-auth", "success",
                             "Redirigiendo a Google...")
      [] OTHER ->
            updateStepStatus(prev, "google-auth", "error",
                             "Error inesperado: " \o r.message)

\* signInWithGoogle after its await.
signInWithGoogleResolved(prev, r) ==
    CASE r.kind = "error" ->
            updateStepStatus(
                updateStepStatus(prev, "google-auth", "error",
                                 "Error: " \o r.message),
                "session-management", "error",
                "No se puede gestionar sesión sin autenticación")
      [] r.kind = "ok" ->
            updateStepStatus(prev, "google-auth", "loading",
                             "Redirigiendo a Google...")
      [] OTHER ->
            updateStepStatus(prev, "google-auth", "error",
                             "Error inesperado: " \o r.message)

\* signOut after its await with a failure shown as a step error.
signOutResolvedSteps_SurfaceError(prev, r) ==
    IF r.kind = "ok" THEN prev
    ELSE updateStepStatus(prev, "session-management", "error",
                          "Error: " \o r.message)

\* signOut putting the two authentication steps back to pending on success.
signOutResolvedSteps_ResetOnSuccess(prev, r) ==
    IF r.kind = "ok"
    THEN updateStepStatus(
            updateStepStatus(prev, "google-auth", "pending", undefined),
            "session-management", "pending", undefined)
    ELSE prev

\* signOut after its await: no step is updated on any branch.
signOutResolvedSteps(prev, r) == prev

\* The sign-in button without its disabled attribute.
SignInButtonEnabled_NeverDisabled == user = NULL

\* {!user ? <Button onClick={signInWithGoogle} disabled={isLoading}>}
SignInButtonEnabled == user = NULL /\ ~isLoading

\* {... : <Button onClick={signOut} disabled={isLoading}>}
SignOutButtonEnabled == user # NULL /\ ~isLoading

-----------------------------------------------------------------------------
(* Actions *)

\* The mount effect: both checks run to their await and the callback is
\* subscribed.  React runs it before any click is handled.
Startup ==
    /\ subscription = "none"
    /\ steps' = updateStepStatus(steps, "supabase-connection", "loading", undefined)
    /\ inflight' = [inflight EXCEPT !.conn = @ + 1, !.seed = @ + 1]
    /\ subscription' = "active"
    /\ UNCHANGED <<user, session, isLoading, config, connResp, seedResp, run>>

\* supabase.auth.getSession() of a connection check resolves with r.
ConnectionCheckResolves(r) ==
    /\ inflight.conn > 0
    /\ steps' = checkSupabaseConnectionResolved(steps, r)
    /\ inflight' = [inflight EXCEPT !.conn = @ - 1]
    /\ connResp' = r
    /\ UNCHANGED <<user, session, isLoading, subscription, config, seedResp, run>>

\* checkSession storing the session without its user.
SessionCheckResolves_NoSetUser(r) ==
    /\ inflight.seed > 0
    /\ steps' = checkSessionResolved(steps, r)
    /\ IF r.kind = "ok" /\ r.session # NULL
       THEN session' = r.session
       ELSE UNCHANGED session
    /\ inflight' = [inflight EXCEPT !.seed = @ - 1]
    /\ seedResp' = r
    /\ UNCHANGED <<user, isLoading, subscription, config, connResp, run>>

\* supabase.auth.getSession() of checkSession resolves with r.
SessionCheckResolves(r) ==
    /\ inflight.seed > 0
    /\ steps' = checkSessionResolved(steps, r)
    /\ IF r.kind = "ok" /\ r.session # NULL
       THEN session' = r.session /\ user' = r.session.user
       ELSE UNCHANGED <<user, session>>
    /\ inflight' = [inflight EXCEPT !.seed = @ - 1]
    /\ seedResp' = r
    /\ UNCHANGED <<isLoading, subscription, config, connResp, run>>

\* The callback still called after unsubscribe().
AuthStateChange_AfterRelease(event, s) ==
    /\ subscription # "none"
    /\ session' = s
    /\ user' = onAuthStateChangeUser(event, s)
    /\ steps' = onAuthStateChangeSteps(steps, event, s)
    /\ run' = "mixed"
    /\ UNCHANGED <<isLoading, subscription, inflight, config, connResp, seedResp>>

\* The provider delivers an event to the subscribed callback.
AuthStateChange(event, s) ==
    /\ subscription = "active"
    /\ session' = s
    /\ user' = onAuthStateChangeUser(event, s)
    /\ steps' = onAuthStateChangeSteps(steps, event, s)
    /\ run' = "mixed"
    /\ UNCHANGED <<isLoading, subscription, inflight, config, connResp, seedResp>>

\* A click of the sign-in button: signInWithGoogle up to its await.
signInWithGoogle ==
    /\ subscription = "active"
    /\ SignInButtonEnabled
    /\ isLoading' = TRUE
    /\ steps' = updateStepStatus(steps, "google-auth", "loading",
                                 "Iniciando proceso de autenticación...")
    /\ inflight' = [inflight EXCEPT !.signIn = @ + 1]
    /\ run' = IF run = "mixed" THEN "mixed" ELSE "actions"
    /\ UNCHANGED <<user, session, subscription, config, connResp, seedResp>>

\* signInWithGoogle without its finally clause.
SignInResolves_NoFinally(r) ==
    /\ inflight.signIn > 0
    /\ steps' = signInWithGoogleResolved(steps, r)
    /\ inflight' = [inflight EXCEPT !.signIn = @ - 1]
    /\ UNCHANGED <<user, session, isLoading, subscription, config, connResp, seedResp, run>>

\* supabase.auth.signInWithOAuth() resolves with r.
SignInResolves(r) ==
    /\ inflight.signIn > 0
    /\ steps' = signInWithGoogleResolved(steps, r)
    /\ isLoading' = FALSE
    /\ inflight' = [inflight EXCEPT !.signIn = @ - 1]
    /\ UNCHANGED <<user, session, subscription, config, connResp, seedResp, run>>

\* A click of the sign-out button: signOut up to its await.
signOut ==
    /\ subscription = "active"
    /\ SignOutButtonEnabled
    /\ isLoading' = TRUE
    /\ inflight' = [inflight EXCEPT !.signOut = @ + 1]
    /\ run' = IF run = "mixed" THEN "mixed" ELSE "actions"
    /\ UNCHANGED <<steps, user, session, subscription, config, connResp, seedResp>>

\* signOut clearing the mirrors whatever the call returned.
SignOutResolves_ClearAlways(r) ==
    /\ inflight.signOut > 0
    /\ steps' = signOutResolvedSteps(steps, r)
    /\ user' = NULL
    /\ session' = NULL
    /\ isLoading' = FALSE
    /\ inflight' = [inflight EXCEPT !.signOut = @ - 1]
    /\ UNCHANGED <<subscription, config, connResp, seedResp, run>>

\* supabase.auth.signOut() resolves with r.
SignOutResolves(r) ==
    /\ inflight.signOut > 0
    /\ steps' = signOutResolvedSteps(steps, r)
    /\ IF r.kind = "ok"
       THEN user' = NULL /\ session' = NULL
       ELSE UNCHANGED <<user, session>>
    /\ isLoading' = FALSE
    /\ inflight' = [inflight EXCEPT !.signOut = @ - 1]
    /\ UNCHANGED <<subscription, config, connResp, seedResp, run>>

\* A click of the reset button: the reset of every step, then
\* checkSupabaseConnection up to its await.  The button is never disabled.
resetValidation ==
    /\ subscription = "active"
    /\ inflight.conn < MaxInflight
    /\ steps' = updateStepStatus(resetAll(steps), "supabase-connection",
                                 "loading", undefined)
    /\ inflight' = [inflight EXCEPT !.conn = @ + 1]
    /\ run' = CASE run \in {"fresh", "reset"} /\ NoneInFlight -> "reset"
                 [] run = "mixed" -> "mixed"
                 [] OTHER -> "actions"
    /\ UNCHANGED <<user, session, isLoading, subscription, config, connResp, seedResp>>

\* The cleanup of the effect: subscription.unsubscribe().  Calls in flight
\* still resolve afterwards.
Unmount ==
    /\ subscription = "active"
    /\ subscription' = "released"
    /\ UNCHANGED <<steps, user, session, isLoading, inflight, config,
                   connResp, seedResp, run>>

Next ==
    \/ Startup
    \/ \E r \in GetSessionResponses : ConnectionCheckResolves(r)
    \/ \E r \in GetSessionResponses : SessionCheckResolves(r)
    \/ \E e \in AuthEvents : AuthStateChange(e[1], e[2])
    \/ signInWithGoogle
    \/ \E r \in ActionResponses : SignInResolves(r)
    \/ signOut
    \/ \E r \in ActionResponses : SignOutResolves(r)
    \/ resetValidation
    \/ Unmount

Spec == Init /\ [][Next]_vars

\* The initial states of the builds with both identifiers set or both
\* missing: the two outcomes of checkOAuthConfig.  The configuration is read
\* nowhere else, so the busy flag and the connection step do not depend on it.
InitFair ==
    /\ Init
    /\ config \in {[projectId |-> "abcdefgh", publicAnonKey |-> "anon-key"],
                   [projectId |-> "", publicAnonKey |-> ""]}

\* Every awaited provider call eventually resolves: its promise settles and
\* the event loop then resumes the function that awaits it.  Stated for the
\* sign-in and sign-out calls, of which at most one is unresolved ...
ActionCallResolves ==
    \E r \in ActionResponses : SignInResolves(r) \/ SignOutResolves(r)

FairActionSpec == InitFair /\ [][Next]_vars /\ WF_vars(ActionCallResolves)

\* ... and for the getSession calls of the connection checks.
ConnectionCallResolves ==
    \E r \in GetSessionResponses : ConnectionCheckResolves(r)

FairConnectionSpec == InitFair /\ [][Next]_vars /\ WF_vars(ConnectionCallResolves)

-----------------------------------------------------------------------------
(* The update primitive on its own: any call, in any order *)

\* Details a caller may pass.
DetailValues == {undefined, "x"}

\* One call updateStepStatus(id, status, details) with arbitrary arguments.
UpdateStepCall(id, status, details) ==
    /\ steps' = updateStepStatus(steps, id, status, details)
    /\ UNCHANGED <<user, session, isLoading, subscription, inflight, config,
                   connResp, seedResp, run>>

NextUpdate ==
    \E id \in StepIds \cup {"unknown-step"}, status \in Statuses, details \in DetailValues :
        UpdateStepCall(id, status, details)

\* The initial state of a build with both identifiers configured.
InitUpdate == Init /\ config = [projectId |-> "abcdefgh", publicAnonKey |-> "anon-key"]

SpecUpdate == InitUpdate /\ [][NextUpdate]_vars

-----------------------------------------------------------------------------
(* Properties *)

\* The step of ss with the given id (ids are unique).
StepOf(ss, id) == ss[CHOOSE i \in 1..Len(ss) : ss[i].id = id]

\* sub occurs in the string s.
Contains(s, sub) ==
    \E i \in 1..(Len(s) - Len(sub) + 1) : SubSeq(s, i, i + Len(sub) - 1) = sub

\* tt has the steps of ss in the same order, with the same static fields.
SameStatic(ss, tt) ==
    /\ Len(tt) = Len(ss)
    /\ \A i \in 1..Len(ss) :
          /\ tt[i].id = ss[i].id
          /\ tt[i].title = ss[i].title
          /\ tt[i].description = ss[i].description

ConfigPresent == config.projectId # "" /\ config.publicAnonKey # ""

\* The steps a fresh startup ends with when its connection check receives rc
\* and its session check receives rs.
FreshStartupSteps(rc, rs) ==
    checkSessionResolved(
        checkSupabaseConnectionResolved(
            updateStepStatus(InitSteps, "supabase-connection", "loading", undefined),
            rc),
        rs)

\* Step i goes from success to error, or from error to success, in this step.
SuccessToError(i) == steps[i].status = "success" /\ steps'[i].status = "error"
ErrorToSuccess(i) == steps[i].status = "error" /\ steps'[i].status = "success"

\* C1: whenever the getSession request of a connection check fails, by an
\* error result or by a throw, the check ends with connection = error and
\* oauth-config = error ("cannot verify without connection", the
\* configuration is not evaluated), and google-auth and session-management
\* are left as they were.
C1_FailedCheckMarksBothSteps ==
    [][\A r \in {ErrorResp, ThrowResp} :
          ConnectionCheckResolves(r) =>
              /\ StepOf(steps', "supabase-connection").status = "error"
              /\ StepOf(steps', "oauth-config").status = "error"
              /\ StepOf(steps', "oauth-config").details =
                    "No se puede verificar sin conexión a Supabase"
              /\ StepOf(steps', "google-auth") = StepOf(steps, "google-auth")
              /\ StepOf(steps', "session-management") = StepOf(steps, "session-management")
      ]_vars

\* C2: after a startup in which both session requests succeeded with no
\* session, with both configuration identifiers present and nothing else
\* having happened, connection and oauth-config are success, google-auth and
\* session-management are pending, and user and session are null.
C2_StartupEmptySession ==
    ( /\ run = "fresh"
      /\ subscription # "none"
      /\ NoneInFlight
      /\ connResp = OkResp(NULL)
      /\ seedResp = OkResp(NULL)
      /\ ConfigPresent )
    =>
    ( /\ StepOf(steps, "supabase-connection").status = "success"
      /\ StepOf(steps, "oauth-config").status = "success"
      /\ StepOf(steps, "google-auth").status = "pending"
      /\ StepOf(steps, "session-management").status = "pending"
      /\ user = NULL
      /\ session = NULL )

C2_Witness ==
    /\ run = "fresh"
    /\ subscription # "none"
    /\ NoneInFlight
    /\ connResp = OkResp(NULL)
    /\ seedResp = OkResp(NULL)
    /\ ConfigPresent
    /\ StepOf(steps, "oauth-config").status = "success"

\* C3: a SIGNED_IN event, in any state, stores the pushed session and its
\* user, sets google-auth = success with the email in its details and
\* session-management = success with the provider name in its details, and
\* leaves connection and oauth-config unchanged.
C3_SignedInEvent ==
    [][\A s \in Sessions :
          AuthStateChange("SIGNED_IN", s) =>
              /\ session' = s
              /\ user' = s.user
              /\ StepOf(steps', "google-auth").status = "success"
              /\ Contains(StepOf(steps', "google-auth").details, s.user.email)
              /\ StepOf(steps', "session-management").status = "success"
              /\ Contains(StepOf(steps', "session-management").details,
                          s.user.app_metadata.provider)
              /\ StepOf(steps', "supabase-connection") = StepOf(steps, "supabase-connection")
              /\ StepOf(steps', "oauth-config") = StepOf(steps, "oauth-config")
              /\ SameStatic(steps, steps')
      ]_vars

\* A signed-in event was handled after a failed connection check.
C3_Witness ==
    /\ session = SessionA
    /\ user = SessionA.user
    /\ StepOf(steps, "google-auth").status = "success"
    /\ StepOf(steps, "google-auth").details = "Usuario autenticado: a@b.com"
    /\ StepOf(steps, "session-management").details = "Sesión activa con provider: google"
    /\ StepOf(steps, "supabase-connection").status = "error"

\* C4: a SIGNED_OUT event, in any state, clears user and session and puts
\* google-auth and session-management back to the values of a fresh startup
\* (pending, details undefined), leaving connection and oauth-config unchanged.
C4_SignedOutRestoresInitialSteps ==
    [][AuthStateChange("SIGNED_OUT", NULL) =>
          /\ user' = NULL
          /\ session' = NULL
          /\ StepOf(steps', "google-auth") = StepOf(InitSteps, "google-auth")
          /\ StepOf(steps', "session-management") = StepOf(InitSteps, "session-management")
          /\ StepOf(steps', "supabase-connection") = StepOf(steps, "supabase-connection")
          /\ StepOf(steps', "oauth-config") = StepOf(steps, "oauth-config")
      ]_vars

\* C5: at most one signInWithOAuth/signOut provider call is in flight, and
\* the busy flag is set exactly while one is: a click while isLoading is true
\* issues no provider call.
C5_OneActionInFlight ==
    /\ inflight.signIn + inflight.signOut <= 1
    /\ isLoading <=> (inflight.signIn + inflight.signOut = 1)

\* A sign-in is unresolved while the sign-out button is the one shown.
C5_Witness ==
    /\ inflight.signIn = 1
    /\ isLoading
    /\ user # NULL

\* C6: resetValidation invoked with no provider call in flight, followed by
\* a successful connection check with the configuration present, ends with
\* the statuses and details a fresh startup ends with under the same
\* responses.
C6_ResetReproducesFreshStartup ==
    ( /\ run = "reset"
      /\ NoneInFlight
      /\ ConfigPresent
      /\ connResp.kind = "ok"
      /\ seedResp.kind = "ok" )
    =>
    \A i \in 1..Len(steps) :
        /\ steps[i].status = FreshStartupSteps(connResp, seedResp)[i].status
        /\ steps[i].details = FreshStartupSteps(connResp, seedResp)[i].details

\* C7 (as claimed): no step changes in one transition from success to error
\* or from error to success.
C7_NoDirectFlip ==
    [][\A i \in 1..Len(steps) : ~SuccessToError(i) /\ ~ErrorToSuccess(i)]_vars

\* C7 (amended): a step changes directly from success to error only when a
\* connection check or a sign-in call resolves with a failure, and directly
\* from error to success only when a connection check or the session check
\* resolves successfully or a SIGNED_IN event is handled; startup,
\* resetValidation, the sign-in and sign-out clicks, the resolution of
\* sign-out, and all other events never do so.
C7_FlipOnlyByLateWrite ==
    [][\A i \in 1..Len(steps) :
          /\ SuccessToError(i) =>
                \/ \E r \in {ErrorResp, ThrowResp} : ConnectionCheckResolves(r)
                \/ \E r \in {ErrorResp, ThrowResp} : SignInResolves(r)
          /\ ErrorToSuccess(i) =>
                \/ \E s \in Sessions \cup {NULL} : ConnectionCheckResolves(OkResp(s))
                \/ \E s \in Sessions : SessionCheckResolves(OkResp(s))
                \/ \E s \in Sessions : AuthStateChange("SIGNED_IN", s)
      ]_vars

\* connection went from success to error: oauth-config still holds the
\* success written together with connection = success, and no reset came
\* between (it would have put oauth-config back to pending).
C7_Witness ==
    /\ StepOf(steps, "supabase-connection").status = "error"
    /\ StepOf(steps, "oauth-config").status = "success"

\* C8: updateStepStatus(id, status, details) with an unknown id changes
\* nothing; with a known id it replaces the status and details of the step
\* with that id and nothing else: the other steps, the static fields, the
\* ids and the order stay.
C8_UpdateStepFrame ==
    [][\A id \in StepIds \cup {"unknown-step"}, status \in Statuses, details \in DetailValues :
          UpdateStepCall(id, status, details) =>
              /\ SameStatic(steps, steps')
              /\ \A i \in 1..Len(steps) :
                    IF steps[i].id = id
                    THEN steps'[i].status = status /\ steps'[i].details = details
                    ELSE steps'[i] = steps[i]
              /\ id \notin StepIds => steps' = steps
      ]_vars

\* Only oauth-config was updated.
C8_Witness ==
    /\ subscription = "none"
    /\ StepOf(steps, "oauth-config").status = "error"
    /\ StepOf(steps, "oauth-config").details = "x"
    /\ \A i \in 1..Len(steps) : steps[i].id # "oauth-config" => steps[i] = InitSteps[i]

\* C9: the reset of resetValidation, in any state, yields all four steps at
\* pending with details undefined, order and static fields preserved; the
\* handler then marks connection loading and leaves the other three so.
C9_ResetAllPending ==
    [][resetValidation =>
          /\ SameStatic(steps, resetAll(steps))
          /\ \A i \in 1..Len(steps) :
                /\ resetAll(steps)[i].status = "pending"
                /\ resetAll(steps)[i].details = undefined
          /\ SameStatic(steps, steps')
          /\ StepOf(steps', "supabase-connection").status = "loading"
          /\ \A i \in 1..Len(steps) :
                /\ steps'[i].details = undefined
                /\ steps'[i].id # "supabase-connection" => steps'[i].status = "pending"
      ]_vars

\* The reset ran while a sign-in call was in flight: google-auth, marked
\* loading by the click, is back to pending without details.
C9_Witness ==
    /\ inflight.signIn = 1
    /\ StepOf(steps, "google-auth").status = "pending"
    /\ StepOf(steps, "google-auth").details = undefined
    /\ StepOf(steps, "supabase-connection").status = "loading"

\* C10 (as claimed): an event that is neither SIGNED_IN nor SIGNED_OUT
\* leaves the steps, the user, the session and the busy flag unchanged.
C10_OtherEventIgnored ==
    [][\A e \in AuthEvents :
          (e[1] \notin {"SIGNED_IN", "SIGNED_OUT"} /\ AuthStateChange(e[1], e[2])) =>
              UNCHANGED <<steps, user, session, isLoading>>
      ]_vars

\* C10 (amended): such an event leaves the steps and the busy flag
\* unchanged, and sets the session mirror to the session it carries and the
\* user mirror to that session's user (null when it carries none).
C10_OtherEventOnlyMirrors ==
    [][\A e \in AuthEvents :
          (e[1] \notin {"SIGNED_IN", "SIGNED_OUT"} /\ AuthStateChange(e[1], e[2])) =>
              /\ UNCHANGED <<steps, isLoading>>
              /\ session' = e[2]
              /\ user' = IF e[2] = NULL THEN NULL ELSE e[2].user
      ]_vars

\* The mirrors hold the second user while google-auth still names the first:
\* an event other than SIGNED_IN replaced them.
C10_Witness ==
    /\ session = SessionB
    /\ user = SessionB.user
    /\ StepOf(steps, "google-auth").details = "Usuario autenticado: a@b.com"

\* C11: when the provider's sign-out call succeeds, user and session are
\* cleared; when it fails, by an error result or by a throw, they are left
\* unchanged; neither the click nor the resolution changes any step.
C11_SignOutMirrorsOnly ==
    [][ /\ signOut => UNCHANGED <<steps, user, session>>
        /\ SignOutResolves(OkResp(NULL)) =>
              (user' = NULL /\ session' = NULL /\ UNCHANGED steps)
        /\ \A r \in {ErrorResp, ThrowResp} :
              SignOutResolves(r) => UNCHANGED <<steps, user, session>>
      ]_vars

\* A sign-out succeeded after the startup session check had found the first
\* user: the mirrors are empty, the steps still show the session, and no
\* auth event has been handled.
C11_Witness ==
    /\ run = "actions"
    /\ user = NULL
    /\ session = NULL
    /\ ~isLoading
    /\ StepOf(steps, "google-auth").details = "Usuario ya autenticado: a@b.com"
    /\ StepOf(steps, "session-management").status = "success"

\* C12: whenever the provider's sign-in call fails, by an error result or by
\* a throw, google-auth and session-management are both marked error.
C12_FailedSignInMarksBothSteps ==
    [][\A r \in {ErrorResp, ThrowResp} :
          SignInResolves(r) =>
              /\ StepOf(steps', "google-auth").status = "error"
              /\ StepOf(steps', "session-management").status = "error"
      ]_vars

\* C13: signInWithGoogle never sets google-auth to success: it sets it to
\* loading at the click and again when the call resolves without error,
\* leaving session-management unchanged on that path; google-auth becomes
\* success only by a SIGNED_IN event or by the startup session check.
C13_SignInNeverSucceedsItself ==
    [][ /\ signInWithGoogle =>
              /\ StepOf(steps', "google-auth").status = "loading"
              /\ StepOf(steps', "session-management") = StepOf(steps, "session-management")
        /\ SignInResolves(OkResp(NULL)) =>
              /\ StepOf(steps', "google-auth").status = "loading"
              /\ StepOf(steps', "session-management") = StepOf(steps, "session-management")
        /\ \A r \in ActionResponses :
              SignInResolves(r) => StepOf(steps', "google-auth").status # "success"
        /\ ( /\ StepOf(steps, "google-auth").status # "success"
             /\ StepOf(steps', "google-auth").status = "success" ) =>
              \/ \E s \in Sessions : AuthStateChange("SIGNED_IN", s)
              \/ \E s \in Sessions : SessionCheckResolves(OkResp(s))
      ]_vars

\* The sign-in call resolved without error while session-management held an
\* error of an earlier attempt.
C13_Witness ==
    /\ ~isLoading
    /\ StepOf(steps, "google-auth").status = "loading"
    /\ StepOf(steps, "google-auth").details = "Redirigiendo a Google..."
    /\ StepOf(steps, "session-management").status = "error"

\* C14: every resolution of a sign-in or sign-out call clears the busy
\* flag, whatever the response, and the flag is set only while such a call is
\* unresolved; so, every call resolving eventually, isLoading = TRUE always
\* leads to isLoading = FALSE.
C14_BusyFlagCleared ==
    /\ [][ /\ \A r \in ActionResponses :
                (SignInResolves(r) \/ SignOutResolves(r)) => (isLoading /\ ~isLoading')
           /\ (isLoading /\ ~isLoading') =>
                \E r \in ActionResponses : SignInResolves(r) \/ SignOutResolves(r)
         ]_vars
    /\ (isLoading ~> ~isLoading)

\* A sign-in call resolved and cleared the flag; no event has answered it.
C14_Witness ==
    /\ run = "actions"
    /\ ~isLoading
    /\ inflight.signIn = 0
    /\ StepOf(steps, "google-auth").details = "Redirigiendo a Google..."

\* C15: the subscription is acquired once, by the mount effect, and
\* released once, by its cleanup; no other operation touches it, and once it
\* is released no auth event is handled: the steps and the mirrors then
\* change only by the resolution of a call that was already in flight.
C15_SubscriptionScoped ==
    [][ /\ subscription' # subscription =>
              \/ (Startup /\ subscription = "none" /\ subscription' = "active")
              \/ (Unmount /\ subscription = "active" /\ subscription' = "released")
        /\ (resetValidation \/ signInWithGoogle \/ signOut) =>
              (subscription = "active" /\ subscription' = "active")
        /\ subscription = "released" =>
              /\ subscription' = "released"
              /\ \A e \in AuthEvents : ~AuthStateChange(e[1], e[2])
              /\ NoneInFlight => UNCHANGED <<steps, user, session, isLoading>>
      ]_vars

\* The UI was torn down while signed in, with nothing left in flight.
C15_Witness ==
    /\ subscription = "released"
    /\ NoneInFlight
    /\ session = SessionA
    /\ StepOf(steps, "google-auth").details = "Usuario autenticado: a@b.com"

\* C16: when the startup session check receives a session it stores the
\* session and its user and sets google-auth and session-management to
\* success; when it receives no session, or fails, it changes no step and no
\* mirror; in no case does it change connection or oauth-config.
C16_SessionCheck ==
    [][\A r \in GetSessionResponses :
          SessionCheckResolves(r) =>
              /\ StepOf(steps', "supabase-connection") = StepOf(steps, "supabase-connection")
              /\ StepOf(steps', "oauth-config") = StepOf(steps, "oauth-config")
              /\ IF r.kind = "ok" /\ r.session # NULL
                 THEN /\ session' = r.session
                      /\ user' = r.session.user
                      /\ StepOf(steps', "google-auth").status = "success"
                      /\ Contains(StepOf(steps', "google-auth").details, r.session.user.email)
                      /\ StepOf(steps', "session-management").status = "success"
                 ELSE UNCHANGED <<steps, user, session>>
      ]_vars

\* The session check found the second user's session.
C16_Witness ==
    /\ seedResp = OkResp(SessionB)
    /\ run = "fresh"
    /\ session = SessionB
    /\ user = SessionB.user
    /\ StepOf(steps, "google-auth").details = "Usuario ya autenticado: c@d.org"
    /\ StepOf(steps, "session-management").details = "Sesión activa desde: 6/15/2023, 12:30:00 PM"

\* Step i settles: its status becomes success or error in this step.
Settles(i) ==
    steps'[i].status \in {"success", "error"} /\ steps'[i].status # steps[i].status

\* Step i goes back from success or error to pending in this step.
BackToPending(i) ==
    steps[i].status \in {"success", "error"} /\ steps'[i].status = "pending"

\* A step goes back to pending only by resetValidation or, for google-auth
\* and session-management, by a SIGNED_OUT event.
OnlyResetGoesBack ==
    \A i \in 1..Len(steps) :
        BackToPending(i) =>
            \/ resetValidation
            \/ /\ steps[i].id \in {"google-auth", "session-management"}
               /\ AuthStateChange("SIGNED_OUT", NULL)

\* C17 (as claimed): a step becomes success or error only from loading, and
\* goes back from success or error to pending only by resetValidation or,
\* for google-auth and session-management, by a SIGNED_OUT event.
C17_PendingLoadingSettled ==
    [][ /\ \A i \in 1..Len(steps) : Settles(i) => steps[i].status = "loading"
        /\ OnlyResetGoesBack
      ]_vars

\* C17 (amended): a step goes back from success or error to pending only by
\* resetValidation or, for google-auth and session-management, by a
\* SIGNED_OUT event.  Loading is not a stage every step passes through:
\* oauth-config and session-management are never loading, and only
\* connection never settles from pending.
C17_BackOnlyByReset ==
    [][ /\ OnlyResetGoesBack
        /\ StepOf(steps', "oauth-config").status # "loading"
        /\ StepOf(steps', "session-management").status # "loading"
        /\ \A i \in 1..Len(steps) :
              (Settles(i) /\ steps[i].id = "supabase-connection") => steps[i].status # "pending"
      ]_vars

\* oauth-config has settled without ever being loading, and a SIGNED_OUT
\* event has put google-auth back to pending after the session check had
\* found a session.
C17_Witness ==
    /\ StepOf(steps, "oauth-config").status = "success"
    /\ StepOf(steps, "google-auth").status = "pending"
    /\ StepOf(steps, "google-auth").details = "Proceso de autenticación con Google"
    /\ seedResp.kind = "ok"
    /\ seedResp.session # NULL

\* C18: the user mirror is null exactly when the session mirror is null, and
\* otherwise it is the user of the mirrored session.
C18_MirrorsTogether ==
    /\ (user = NULL) <=> (session = NULL)
    /\ session # NULL => user = session.user

\* Both mirrors were set and then cleared together by a sign-out.
C18_Witness ==
    /\ run = "actions"
    /\ user = NULL
    /\ session = NULL
    /\ seedResp = OkResp(SessionB)
    /\ inflight.signOut = 0

\* C19: connection = success implies that oauth-config holds the result of
\* the configuration evaluation: success when both identifiers are present,
\* error ("missing") otherwise; never pending or loading.
C19_SuccessImpliesConfigEvaluated ==
    StepOf(steps, "supabase-connection").status = "success" =>
        /\ StepOf(steps, "oauth-config").status =
              IF ConfigPresent THEN "success" ELSE "error"
        /\ StepOf(steps, "oauth-config").details # "No se puede verificar sin conexión a Supabase"
        /\ StepOf(steps, "oauth-config").details # undefined

\* resetValidation was clicked while the earlier check was in flight; one of
\* the two checks has succeeded and the other is still unresolved.
C19_Witness ==
    /\ StepOf(steps, "supabase-connection").status = "success"
    /\ inflight.conn = 1
    /\ run = "actions"
    /\ StepOf(steps, "oauth-config").status = "error"

\* C20: a connection check sets connection to success or error whenever it
\* resolves, so after startup connection is success or error whenever no
\* connection check is in flight; and, every getSession call resolving
\* eventually, connection = loading always leads to success or error, for any
\* number of resetValidation clicks.
C20_ConnectionSettles ==
    /\ [][(subscription' # "none" /\ inflight'.conn = 0) =>
             StepOf(steps', "supabase-connection").status \in {"success", "error"}]_vars
    /\ (StepOf(steps, "supabase-connection").status = "loading")
          ~> (StepOf(steps, "supabase-connection").status \in {"success", "error"})

\* Two overlapping checks have resolved after a resetValidation click: the
\* second one threw after the first one had succeeded.
C20_Witness ==
    /\ subscription # "none"
    /\ inflight.conn = 0
    /\ run = "actions"
    /\ StepOf(steps, "supabase-connection").details = "Error de conexión: TypeError: Failed to fetch"
    /\ StepOf(steps, "oauth-config").status = "success"

====
